---- MODULE Spec2Model ----
(***************************************************************************)
(* EduManager: the student-ID allocation of the REST API (api/index.js).   *)
(*                                                                         *)
(* The state is the two MongoDB collections the ID logic touches (the      *)
(* Counter collection and the Student collection), the unique indexes the  *)
(* deployment's database holds on the Student collection, and one handler  *)
(* frame per request being served.  The Course collection and the routes   *)
(* that do not allocate IDs are there for the claims about the API as a    *)
(* whole (NextAll).  Every `await`ed store call of a                       *)
(* handler is one atomic action; the synchronous code between two awaits   *)
(* belongs to the action of the await before it.                           *)
(*                                                                         *)
(* A store call that fails for a transport reason is modelled as not       *)
(* applied: the collection is unchanged and the call rejects.              *)
(***************************************************************************)
EXTENDS Integers, Sequences, FiniteSets, Bags, TLC

\* ---------------------------------------------------------------- bounds
NumSlots == 2
MaxRequests == 3
MaxRaceRequests == 4
MaxStaleRequests == 1
MaxSeqRequests == 2
MaxAllRequests == 2
MaxSerialRequests == 5
NumStudents == 1     \* students the page can list
MaxOps == 2          \* requests the user starts from the page
NumEmails == 1
MaxSeed == 5
MaxFaults == 1

\* ------------------------------------------------------ program constants
MAX_RETRIES == 5
INITIAL_ID_VALUE == 0
SEQ_NAME == "studentId"

Slots == 1..NumSlots
Emails == 1..NumEmails

\* ------------------------------------------------------------- messages
MsgRequired == "Name, email, course, and enrollment date are required"
MsgExhausted == "Failed to generate a unique Student ID after multiple retries."
MsgStaleEmail == "A duplicate email was found by an unexpected database index. Please restart the application to clear the index."
MsgLoopEnd == "Internal server error during student creation."
MsgNotFound == "Student not found"
MsgDeleted == "Student deleted successfully"
MsgDupKey == "E11000 duplicate key error collection"
MsgValidation == "Student validation failed"
MsgNetwork == "MongoNetworkError"
MsgCourseRequired == "Course name, description, and duration are required"
MsgCourseNotFound == "Course not found"
MsgCourseDeleted == "Course deleted successfully"
MsgDuration == "Duration must be between 1 and 48 months"
MsgNullCounter == "Cannot read properties of null (reading 'sequence_value')"

\* error.message.includes(needle), for the two needles the handler looks for
Includes(message, needle) ==
    \/ needle = "A duplicate email was found" /\ message = MsgStaleEmail
    \/ needle = "unique Student ID" /\ message = MsgExhausted

\* --------------------------------------------------------------- errors
\* keyPattern: the field a duplicate-key error names, "none" when none
DupKeyError(field) == [code |-> 11000, keyPattern |-> field, message |-> MsgDupKey]
ValidationError == [code |-> 0, keyPattern |-> "none", message |-> MsgValidation]
NetworkError == [code |-> 0, keyPattern |-> "none", message |-> MsgNetwork]
NullCounterError == [code |-> 0, keyPattern |-> "none", message |-> MsgNullCounter]
NewError(message) == [code |-> 0, keyPattern |-> "none", message |-> message]

\* ------------------------------------------------------------ documents
NoDoc == [_id |-> 0, studentId |-> 0, email |-> 0]

VARIABLES
    counters,       \* the Counter collection: documents [_id, sequence_value]
    students,       \* the Student collection: documents [_id, studentId, email]
    courses,        \* the Course collection: documents [_id, status]
    uniqueIndexes,  \* fields of the Student collection under a unique index
    keyPatternSent, \* whether the server's E11000 errors carry keyPattern
    frame,          \* per slot: the handler serving a request, its locals, its response
    nreq,           \* requests received so far
    limit,          \* requests that arrive in all (the workload)
    serial,         \* whether a request arrives only when no other is being served
    faults,         \* store calls that failed for a transport reason so far
    seqLog,         \* history: the values getNextSequenceValue returned since the last reset
    page            \* the browser page of public/script.js: its globals, its modals, its
                    \* spinner, its API calls in flight

\* the state of the API server
server == <<counters, students, courses, uniqueIndexes, keyPatternSent, frame, nreq, limit,
            serial, faults, seqLog>>

vars == <<counters, students, courses, uniqueIndexes, keyPatternSent, frame, nreq, limit, serial,
          faults, seqLog, page>>

\* ------------------------------------------------------ Counter collection
CounterDocs(cs, name) == {c \in cs : c._id = name}

\* sequence_value of the named counter, the initial value when there is no record
CounterValue(cs, name) ==
    IF CounterDocs(cs, name) = {} THEN INITIAL_ID_VALUE
    ELSE (CHOOSE c \in CounterDocs(cs, name) : TRUE).sequence_value

\* a plausible slip: $set in place of $setOnInsert
SetAlways(cs, name) ==
    (cs \ CounterDocs(cs, name)) \cup {[_id |-> name, sequence_value |-> INITIAL_ID_VALUE]}

\* a plausible slip: the first ID is taken for the initial value
SetOnInsertOne(cs, name) ==
    IF CounterDocs(cs, name) = {}
    THEN cs \cup {[_id |-> name, sequence_value |-> 1]}
    ELSE cs

\* a plausible slip: the first call increments as well ({$inc} with upsert: true)
UpsertInc(cs, name) ==
    IF CounterDocs(cs, name) = {}
    THEN cs \cup {[_id |-> name, sequence_value |-> 1]}
    ELSE {IF c._id = name THEN [c EXCEPT !.sequence_value = @ + 1] ELSE c : c \in cs}

\* a plausible slip: the baseline record is inserted without looking for one
InsertBaseline(cs, name) == cs \cup {[_id |-> name, sequence_value |-> INITIAL_ID_VALUE]}

\* findOneAndUpdate({_id}, {$setOnInsert: {sequence_value: INITIAL_ID_VALUE}}, {upsert: true})
SetOnInsert(cs, name) ==
    IF CounterDocs(cs, name) = {}
    THEN cs \cup {[_id |-> name, sequence_value |-> INITIAL_ID_VALUE]}
    ELSE cs

\* a plausible slip: {new: true} left out, the document before the update is returned
IncReturnOld(cs, name) ==
    LET old == CHOOSE c \in CounterDocs(cs, name) : TRUE
        new == [old EXCEPT !.sequence_value = @ + 1]
    IN [counters |-> (cs \ {old}) \cup {new}, doc |-> old]

\* a plausible slip: the next value is computed from the record but not stored
IncNotStored(cs, name) ==
    LET old == CHOOSE c \in CounterDocs(cs, name) : TRUE
        new == [old EXCEPT !.sequence_value = @ + 1]
    IN [counters |-> cs, doc |-> new]

\* findByIdAndUpdate(name, {$inc: {sequence_value: 1}}, {new: true}), a record present
IncSequence(cs, name) ==
    LET old == CHOOSE c \in CounterDocs(cs, name) : TRUE
        new == [old EXCEPT !.sequence_value = @ + 1]
    IN [counters |-> (cs \ {old}) \cup {new}, doc |-> new]

\* a plausible slip: the last ID is given back instead of the counter being reset
ResetDecrement(cs, name) ==
    {IF c._id = name THEN [c EXCEPT !.sequence_value = @ - 1] ELSE c : c \in cs}

\* a plausible slip: the filter names another record, nothing is updated
ResetWrongName(cs, name) == cs

\* findOneAndUpdate({_id: 'studentId'}, {sequence_value: 0}): no upsert
ResetSequence(cs, name) ==
    {IF c._id = name THEN [c EXCEPT !.sequence_value = 0] ELSE c : c \in cs}

\* ------------------------------------------------------ Student collection
\* the unique indexes a new document would violate
Violated(ss, idx, doc) ==
    {f \in idx : \E s \in ss : s[f] = doc[f]}

\* what student.save() can do at the store: "inserted", a transport failure, or a
\* duplicate-key error on one of the violated indexes
SaveOutcomes(ss, idx, doc) ==
    {"unavailable"} \cup
        (IF Violated(ss, idx, doc) = {} THEN {"inserted"} ELSE Violated(ss, idx, doc))

\* a plausible slip: the id is not used as the filter, the first document matches
FoundFirst(ss, id) == IF ss = {} THEN {} ELSE {CHOOSE s \in ss : TRUE}

\* the document Student.findByIdAndDelete(id) matches, if any
Found(ss, id) == {s \in ss : s._id = id}

\* whether a store call goes through: it may fail while the fault budget lasts
StoreUp == IF faults < MaxFaults THEN BOOLEAN ELSE {TRUE}

\* ------------------------------------------------------------- requests
Bodies ==
    {[fields |-> "ok", email |-> e] : e \in Emails}
        \cup {[fields |-> k, email |-> 0] : k \in {"missing", "invalid"}}

\* a plausible slip: && for ||, a body is refused only when it lacks all four fields
\* (a body here lacks some of them, not all)
LacksAllFields(body) == FALSE

\* !name || !email || !course || !enrollmentDate
LacksField(body) == body.fields = "missing"

IdleFrame ==
    [pc |-> "idle", kind |-> "none", rid |-> 0,
     body |-> [fields |-> "ok", email |-> 1], id |-> 0,
     attempt |-> 0, generatedStudentId |-> 0, remainingStudents |-> 0,
     status |-> 0, error |-> "", student |-> NoDoc,
     trail |-> <<>>, seen |-> 0, base |-> 0, first |-> 0]

\* res.status(status).json(...): the handler is over
Respond(f, status, error, student) ==
    [f EXCEPT !.pc = "done", !.status = status, !.error = error, !.student = student,
              !.seen = 0, !.base = 0, !.first = 0]

\* the outer catch of POST /api/students
RespondError(f, error) ==
    IF Includes(error.message, "A duplicate email was found")
    THEN Respond(f, 400, error.message, NoDoc)
    ELSE IF Includes(error.message, "unique Student ID")
    THEN Respond(f, 500, error.message, NoDoc)
    ELSE Respond(f, 400, error.message, NoDoc)

\* a plausible slip: a studentId collision is thrown at once, never retried
CatchNoRetry(error, attempt) ==
    IF error.code = 11000
    THEN IF error.keyPattern = "studentId"
         THEN [do |-> "throw", error |-> NewError(MsgExhausted)]
         ELSE IF error.keyPattern = "email"
         THEN [do |-> "throw", error |-> NewError(MsgStaleEmail)]
         ELSE [do |-> "continue", error |-> error]
    ELSE [do |-> "throw", error |-> error]

\* a plausible slip: the last attempt is tested as attempt === MAX_RETRIES
CatchOffByOne(error, attempt) ==
    IF error.code = 11000
    THEN IF error.keyPattern = "studentId"
         THEN IF attempt = MAX_RETRIES
              THEN [do |-> "throw", error |-> NewError(MsgExhausted)]
              ELSE [do |-> "continue", error |-> error]
         ELSE IF error.keyPattern = "email"
         THEN [do |-> "throw", error |-> NewError(MsgStaleEmail)]
         ELSE [do |-> "continue", error |-> error]
    ELSE [do |-> "throw", error |-> error]

\* a plausible slip: the final else is missing, every error is retried
CatchSwallowAll(error, attempt) ==
    IF error.code = 11000
    THEN IF error.keyPattern = "studentId"
         THEN IF attempt = MAX_RETRIES - 1
              THEN [do |-> "throw", error |-> NewError(MsgExhausted)]
              ELSE [do |-> "continue", error |-> error]
         ELSE IF error.keyPattern = "email"
         THEN [do |-> "throw", error |-> NewError(MsgStaleEmail)]
         ELSE [do |-> "continue", error |-> error]
    ELSE [do |-> "continue", error |-> error]

\* the inner catch of the retry loop: what it throws, or "continue"
CatchAttempt(error, attempt) ==
    IF error.code = 11000
    THEN IF error.keyPattern = "studentId"
         THEN IF attempt = MAX_RETRIES - 1
              THEN [do |-> "throw", error |-> NewError(MsgExhausted)]
              ELSE [do |-> "continue", error |-> error]
         ELSE IF error.keyPattern = "email"
         THEN [do |-> "throw", error |-> NewError(MsgStaleEmail)]
         ELSE [do |-> "continue", error |-> error]
    ELSE [do |-> "throw", error |-> error]

\* a plausible slip: the loop variable is not advanced
BeginAttemptStuck(f, attempt) ==
    [f EXCEPT !.pc = "upsert", !.attempt = 0, !.generatedStudentId = 0,
              !.seen = Len(seqLog), !.base = CounterValue(counters, SEQ_NAME)]

\* a loop iteration starts: getNextSequenceValue is called
BeginAttempt(f, attempt) ==
    [f EXCEPT !.pc = "upsert", !.attempt = attempt, !.generatedStudentId = 0,
              !.seen = Len(seqLog), !.base = CounterValue(counters, SEQ_NAME)]

\* how an attempt's end is known in the history
Outcome(error) ==
    IF error.code = 11000 THEN <<"dup", error.keyPattern>> ELSE <<"fail", error.message>>

\* the attempt threw `error`: inner catch, then the loop's next iteration, the
\* statement after the loop, or the outer catch
AttemptFailed(f, error) ==
    LET c == CatchAttempt(error, f.attempt)
        g == [f EXCEPT !.trail = Append(@, Outcome(error))]
    IN IF c.do = "throw" THEN RespondError(g, c.error)
       ELSE IF f.attempt + 1 < MAX_RETRIES THEN BeginAttempt(g, f.attempt + 1)
       ELSE Respond(g, 500, MsgLoopEnd, NoDoc)

\* a plausible slip: the document carries the counter value read before the increment
BuiltFromBase(f) == [_id |-> f.rid, studentId |-> f.base, email |-> f.body.email]

\* new Student({studentId: generatedStudentId, ...}): the document of the current attempt
Built(f) == [_id |-> f.rid, studentId |-> f.generatedStudentId, email |-> f.body.email]

\* a slot is free when it serves no request: it never did, or its handler has responded
Free(p) == frame[p].pc \in {"idle", "done"}

\* a new request is served in the free slot that has been free longest: one never
\* used (rid 0) before one whose request was answered, the earliest answer first
OldestFree(p) ==
    /\ Free(p)
    /\ \A q \in Slots \ {p} :
        Free(q) => \/ frame[p].rid < frame[q].rid
                   \/ frame[p].rid = frame[q].rid /\ p < q

\* whether a request may arrive now: always, or in a serial run only when every
\* earlier request has been answered
MayArrive == serial => \A q \in Slots : Free(q)

\* -------------------------------------------------------------- actions
\* POST /api/students arrives: the body is validated, the retry loop is entered
PostStudent(p) ==
    /\ OldestFree(p)
    /\ MayArrive
    /\ nreq < limit
    /\ \E body \in Bodies :
        LET f == [IdleFrame EXCEPT !.kind = "create", !.rid = nreq + 1, !.body = body,
                                   !.first = CounterValue(counters, SEQ_NAME)]
        IN frame' = [frame EXCEPT ![p] =
                        IF LacksField(body)
                        THEN Respond(f, 400, MsgRequired, NoDoc)
                        ELSE BeginAttempt(f, 0)]
    /\ nreq' = nreq + 1
    /\ UNCHANGED <<counters, students, uniqueIndexes, keyPatternSent, limit, serial,
                 courses, faults, seqLog>>
    /\ UNCHANGED page

\* getNextSequenceValue, first store call: the upsert that initializes the counter
CounterUpsert(p) ==
    /\ frame[p].pc = "upsert"
    /\ \E up \in StoreUp :
        IF up
        THEN /\ counters' = SetOnInsert(counters, SEQ_NAME)
             /\ frame' = [frame EXCEPT ![p].pc = "inc"]
             /\ faults' = faults
        ELSE /\ counters' = counters
             /\ frame' = [frame EXCEPT ![p] = AttemptFailed(frame[p], NetworkError)]
             /\ faults' = faults + 1
    /\ UNCHANGED <<students, uniqueIndexes, keyPatternSent, nreq, limit, serial,
                 courses, seqLog>>
    /\ UNCHANGED page

\* getNextSequenceValue, second store call: the increment, and the value returned
CounterInc(p) ==
    /\ frame[p].pc = "inc"
    /\ \E up \in StoreUp :
        IF ~up
        THEN /\ frame' = [frame EXCEPT ![p] = AttemptFailed(frame[p], NetworkError)]
             /\ faults' = faults + 1
             /\ UNCHANGED <<counters, seqLog>>
        ELSE IF CounterDocs(counters, SEQ_NAME) = {}
        THEN /\ frame' = [frame EXCEPT ![p] = AttemptFailed(frame[p], NullCounterError)]
             /\ UNCHANGED <<counters, faults, seqLog>>
        ELSE LET r == IncSequence(counters, SEQ_NAME)
             IN /\ counters' = r.counters
                /\ frame' = [frame EXCEPT ![p].pc = "save",
                                          ![p].generatedStudentId = r.doc.sequence_value]
                /\ seqLog' = Append(seqLog, r.doc.sequence_value)
                /\ faults' = faults
    /\ UNCHANGED <<students, uniqueIndexes, keyPatternSent, nreq, limit, serial, courses>>
    /\ UNCHANGED page

\* new Student({...}) and student.save(), then the response or the inner catch
StudentSave(p) ==
    LET f == frame[p]
        doc == Built(f)
    IN
    /\ f.pc = "save"
    /\ IF f.body.fields = "invalid"
       THEN /\ frame' = [frame EXCEPT ![p] = AttemptFailed(f, ValidationError)]
            /\ UNCHANGED <<students, faults>>
       ELSE \E o \in SaveOutcomes(students, uniqueIndexes, doc) :
            IF o = "inserted"
            THEN /\ students' = students \cup {doc}
                 /\ frame' = [frame EXCEPT ![p] =
                        Respond([f EXCEPT !.trail = Append(@, <<"saved", "">>)],
                                201, "", doc)]
                 /\ faults' = faults
            ELSE IF o = "unavailable"
            THEN /\ faults < MaxFaults
                 /\ frame' = [frame EXCEPT ![p] = AttemptFailed(f, NetworkError)]
                 /\ faults' = faults + 1
                 /\ students' = students
            ELSE /\ frame' = [frame EXCEPT ![p] =
                        AttemptFailed(f, DupKeyError(IF keyPatternSent THEN o ELSE "none"))]
                 /\ UNCHANGED <<students, faults>>
    /\ UNCHANGED <<counters, uniqueIndexes, keyPatternSent, nreq, limit, serial,
                 courses, seqLog>>
    /\ UNCHANGED page

\* DELETE /api/students/:id arrives
DeleteStudent(p) ==
    /\ OldestFree(p)
    /\ MayArrive
    /\ nreq < limit
    /\ \E id \in {s._id : s \in students} \cup {0} :
        frame' = [frame EXCEPT ![p] =
                    [IdleFrame EXCEPT !.pc = "delete", !.kind = "delete",
                                      !.rid = nreq + 1, !.id = id,
                                      !.first = CounterValue(counters, SEQ_NAME)]]
    /\ nreq' = nreq + 1
    /\ UNCHANGED <<counters, students, uniqueIndexes, keyPatternSent, limit, serial,
                 courses, faults, seqLog>>
    /\ UNCHANGED page

\* Student.findByIdAndDelete(req.params.id)
FindByIdAndDelete(p) ==
    LET f == frame[p]
        found == Found(students, f.id)
    IN
    /\ f.pc = "delete"
    /\ \E up \in StoreUp :
        IF ~up
        THEN /\ frame' = [frame EXCEPT ![p] = Respond(f, 500, MsgNetwork, NoDoc)]
             /\ faults' = faults + 1
             /\ students' = students
        ELSE IF found = {}
        THEN /\ frame' = [frame EXCEPT ![p] = Respond(f, 404, MsgNotFound, NoDoc)]
             /\ UNCHANGED <<students, faults>>
        ELSE /\ students' = students \ found
             /\ frame' = [frame EXCEPT ![p].pc = "count"]
             /\ faults' = faults
    /\ UNCHANGED <<counters, uniqueIndexes, keyPatternSent, nreq, limit, serial,
                 courses, seqLog>>
    /\ UNCHANGED page

\* Student.countDocuments(), and the test remainingStudents === 0 (history: a delete
\* about to reset remembers how many values had been returned when it counted)
CountDocuments(p) ==
    LET f == frame[p]
        remainingStudents == Cardinality(students)
    IN
    /\ f.pc = "count"
    /\ \E up \in StoreUp :
        IF ~up
        THEN /\ frame' = [frame EXCEPT ![p] = Respond(f, 500, MsgNetwork, NoDoc)]
             /\ faults' = faults + 1
        ELSE /\ faults' = faults
             /\ IF remainingStudents = 0
                THEN frame' = [frame EXCEPT ![p].pc = "reset",
                                            ![p].remainingStudents = remainingStudents,
                                            ![p].seen = Len(seqLog)]
                ELSE frame' = [frame EXCEPT ![p] =
                                Respond([f EXCEPT !.remainingStudents = remainingStudents],
                                        200, MsgDeleted, NoDoc)]
    /\ UNCHANGED <<counters, students, uniqueIndexes, keyPatternSent, nreq, limit, serial,
                 courses, seqLog>>
    /\ UNCHANGED page

\* Counter.findOneAndUpdate({_id: 'studentId'}, {sequence_value: 0}), then the response.
\* The history starts anew: no value of the new epoch was returned before any call
\* now in flight started.
CounterReset(p) ==
    LET f == frame[p]
    IN
    /\ f.pc = "reset"
    /\ \E up \in StoreUp :
        IF ~up
        THEN /\ frame' = [frame EXCEPT ![p] = Respond(f, 500, MsgNetwork, NoDoc)]
             /\ faults' = faults + 1
             /\ UNCHANGED <<counters, seqLog>>
        ELSE /\ counters' = ResetSequence(counters, SEQ_NAME)
             /\ seqLog' = <<>>
             /\ frame' = [q \in Slots |->
                            IF q = p THEN Respond(f, 200, MsgDeleted, NoDoc)
                            ELSE [frame[q] EXCEPT !.seen = 0]]
             /\ faults' = faults
    /\ UNCHANGED <<students, uniqueIndexes, keyPatternSent, nreq, limit, serial, courses>>
    /\ UNCHANGED page

\* ------------------------------------------------------- the other routes
\* Each of these handlers awaits the store once (the three counts of /api/stats
\* only read): the request arrives, is served and answered in one step.
CourseBodies ==
    {[fields |-> "ok", status |-> st] : st \in {"Active", "Inactive"}}
        \cup {[fields |-> k, status |-> "Active"] : k \in {"missing", "duration"}}

\* the frame of a request of the given kind, answered
Answered(kind, id, status, error) ==
    Respond([IdleFrame EXCEPT !.kind = kind, !.rid = nreq + 1, !.id = id],
            status, error, NoDoc)

\* findByIdAndUpdate(id, updateData): the document under the key gets the new fields
UpdateStudent(ss, id, email) ==
    {IF s._id = id THEN [s EXCEPT !.email = email] ELSE s : s \in ss}

UpdateCourse(cc, id, status) ==
    {IF c._id = id THEN [c EXCEPT !.status = status] ELSE c : c \in cc}

\* GET /api/health
GetHealth(p) ==
    /\ OldestFree(p)
    /\ MayArrive
    /\ nreq < limit
    /\ frame' = [frame EXCEPT ![p] = Answered("health", 0, 200, "")]
    /\ nreq' = nreq + 1
    /\ UNCHANGED <<counters, students, courses, uniqueIndexes, keyPatternSent, limit,
                   serial, faults, seqLog>>
    /\ UNCHANGED page

\* GET /api/stats
GetStats(p) ==
    /\ OldestFree(p)
    /\ MayArrive
    /\ nreq < limit
    /\ \E up \in StoreUp :
        /\ frame' = [frame EXCEPT ![p] =
                        IF up THEN Answered("stats", 0, 200, "")
                        ELSE Answered("stats", 0, 500, MsgNetwork)]
        /\ faults' = IF up THEN faults ELSE faults + 1
    /\ nreq' = nreq + 1
    /\ UNCHANGED <<counters, students, courses, uniqueIndexes, keyPatternSent, limit,
                   serial, seqLog>>
    /\ UNCHANGED page

\* GET /api/students
GetStudents(p) ==
    /\ OldestFree(p)
    /\ MayArrive
    /\ nreq < limit
    /\ \E up \in StoreUp :
        /\ frame' = [frame EXCEPT ![p] =
                        IF up THEN Answered("students", 0, 200, "")
                        ELSE Answered("students", 0, 500, MsgNetwork)]
        /\ faults' = IF up THEN faults ELSE faults + 1
    /\ nreq' = nreq + 1
    /\ UNCHANGED <<counters, students, courses, uniqueIndexes, keyPatternSent, limit,
                   serial, seqLog>>
    /\ UNCHANGED page

\* GET /api/students/:id
GetStudentById(p) ==
    /\ OldestFree(p)
    /\ MayArrive
    /\ nreq < limit
    /\ \E id \in {s._id : s \in students} \cup {0} : \E up \in StoreUp :
        /\ frame' = [frame EXCEPT ![p] =
                        IF ~up THEN Answered("student", id, 500, MsgNetwork)
                        ELSE IF Found(students, id) = {}
                        THEN Answered("student", id, 404, MsgNotFound)
                        ELSE Answered("student", id, 200, "")]
        /\ faults' = IF up THEN faults ELSE faults + 1
    /\ nreq' = nreq + 1
    /\ UNCHANGED <<counters, students, courses, uniqueIndexes, keyPatternSent, limit,
                   serial, seqLog>>
    /\ UNCHANGED page

\* PUT /api/students/:id: studentId is not among the fields updated
PutStudent(p) ==
    /\ OldestFree(p)
    /\ MayArrive
    /\ nreq < limit
    /\ \E id \in {s._id : s \in students} \cup {0} : \E body \in Bodies : \E up \in StoreUp :
        LET others == {s \in students : s._id # id}
            clash == "email" \in uniqueIndexes /\ \E s \in others : s.email = body.email
        IN
        IF LacksField(body)
        THEN /\ up
             /\ frame' = [frame EXCEPT ![p] = Answered("update", id, 400, MsgRequired)]
             /\ UNCHANGED <<students, faults>>
        ELSE IF body.fields = "invalid"
        THEN /\ up
             /\ frame' = [frame EXCEPT ![p] = Answered("update", id, 400, MsgValidation)]
             /\ UNCHANGED <<students, faults>>
        ELSE IF ~up
        THEN /\ frame' = [frame EXCEPT ![p] = Answered("update", id, 400, MsgNetwork)]
             /\ faults' = faults + 1
             /\ students' = students
        ELSE IF Found(students, id) = {}
        THEN /\ frame' = [frame EXCEPT ![p] = Answered("update", id, 404, MsgNotFound)]
             /\ UNCHANGED <<students, faults>>
        ELSE IF clash
        THEN /\ frame' = [frame EXCEPT ![p] = Answered("update", id, 400, MsgDupKey)]
             /\ UNCHANGED <<students, faults>>
        ELSE /\ students' = UpdateStudent(students, id, body.email)
             /\ frame' = [frame EXCEPT ![p] = Answered("update", id, 200, "")]
             /\ faults' = faults
    /\ nreq' = nreq + 1
    /\ UNCHANGED <<counters, courses, uniqueIndexes, keyPatternSent, limit, serial, seqLog>>
    /\ UNCHANGED page

\* GET /api/courses
GetCourses(p) ==
    /\ OldestFree(p)
    /\ MayArrive
    /\ nreq < limit
    /\ \E up \in StoreUp :
        /\ frame' = [frame EXCEPT ![p] =
                        IF up THEN Answered("courses", 0, 200, "")
                        ELSE Answered("courses", 0, 500, MsgNetwork)]
        /\ faults' = IF up THEN faults ELSE faults + 1
    /\ nreq' = nreq + 1
    /\ UNCHANGED <<counters, students, courses, uniqueIndexes, keyPatternSent, limit,
                   serial, seqLog>>
    /\ UNCHANGED page

\* GET /api/courses/:id
GetCourseById(p) ==
    /\ OldestFree(p)
    /\ MayArrive
    /\ nreq < limit
    /\ \E id \in {c._id : c \in courses} \cup {0} : \E up \in StoreUp :
        /\ frame' = [frame EXCEPT ![p] =
                        IF ~up THEN Answered("course", id, 500, MsgNetwork)
                        ELSE IF Found(courses, id) = {}
                        THEN Answered("course", id, 404, MsgCourseNotFound)
                        ELSE Answered("course", id, 200, "")]
        /\ faults' = IF up THEN faults ELSE faults + 1
    /\ nreq' = nreq + 1
    /\ UNCHANGED <<counters, students, courses, uniqueIndexes, keyPatternSent, limit,
                   serial, seqLog>>
    /\ UNCHANGED page

\* POST /api/courses
PostCourse(p) ==
    /\ OldestFree(p)
    /\ MayArrive
    /\ nreq < limit
    /\ \E body \in CourseBodies : \E up \in StoreUp :
        IF body.fields = "missing"
        THEN /\ up
             /\ frame' = [frame EXCEPT ![p] = Answered("addCourse", 0, 400, MsgCourseRequired)]
             /\ UNCHANGED <<courses, faults>>
        ELSE IF body.fields = "duration"
        THEN /\ up
             /\ frame' = [frame EXCEPT ![p] = Answered("addCourse", 0, 400, MsgDuration)]
             /\ UNCHANGED <<courses, faults>>
        ELSE IF ~up
        THEN /\ frame' = [frame EXCEPT ![p] = Answered("addCourse", 0, 400, MsgNetwork)]
             /\ faults' = faults + 1
             /\ courses' = courses
        ELSE /\ courses' = courses \cup {[_id |-> nreq + 1, status |-> body.status]}
             /\ frame' = [frame EXCEPT ![p] = Answered("addCourse", nreq + 1, 201, "")]
             /\ faults' = faults
    /\ nreq' = nreq + 1
    /\ UNCHANGED <<counters, students, uniqueIndexes, keyPatternSent, limit, serial, seqLog>>
    /\ UNCHANGED page

\* PUT /api/courses/:id
PutCourse(p) ==
    /\ OldestFree(p)
    /\ MayArrive
    /\ nreq < limit
    /\ \E id \in {c._id : c \in courses} \cup {0} : \E body \in CourseBodies :
       \E up \in StoreUp :
        IF body.fields = "missing"
        THEN /\ up
             /\ frame' = [frame EXCEPT ![p] = Answered("updateCourse", id, 400, MsgCourseRequired)]
             /\ UNCHANGED <<courses, faults>>
        ELSE IF body.fields = "duration"
        THEN /\ up
             /\ frame' = [frame EXCEPT ![p] = Answered("updateCourse", id, 400, MsgDuration)]
             /\ UNCHANGED <<courses, faults>>
        ELSE IF ~up
        THEN /\ frame' = [frame EXCEPT ![p] = Answered("updateCourse", id, 400, MsgNetwork)]
             /\ faults' = faults + 1
             /\ courses' = courses
        ELSE IF Found(courses, id) = {}
        THEN /\ frame' = [frame EXCEPT ![p] = Answered("updateCourse", id, 404, MsgCourseNotFound)]
             /\ UNCHANGED <<courses, faults>>
        ELSE /\ courses' = UpdateCourse(courses, id, body.status)
             /\ frame' = [frame EXCEPT ![p] = Answered("updateCourse", id, 200, "")]
             /\ faults' = faults
    /\ nreq' = nreq + 1
    /\ UNCHANGED <<counters, students, uniqueIndexes, keyPatternSent, limit, serial, seqLog>>
    /\ UNCHANGED page

\* DELETE /api/courses/:id: no count, no reset, whatever is left
DeleteCourse(p) ==
    /\ OldestFree(p)
    /\ MayArrive
    /\ nreq < limit
    /\ \E id \in {c._id : c \in courses} \cup {0} : \E up \in StoreUp :
        IF ~up
        THEN /\ frame' = [frame EXCEPT ![p] = Answered("deleteCourse", id, 500, MsgNetwork)]
             /\ faults' = faults + 1
             /\ courses' = courses
        ELSE IF Found(courses, id) = {}
        THEN /\ frame' = [frame EXCEPT ![p] = Answered("deleteCourse", id, 404, MsgCourseNotFound)]
             /\ UNCHANGED <<courses, faults>>
        ELSE /\ courses' = courses \ Found(courses, id)
             /\ frame' = [frame EXCEPT ![p] = Answered("deleteCourse", id, 200, MsgCourseDeleted)]
             /\ faults' = faults
    /\ nreq' = nreq + 1
    /\ UNCHANGED <<counters, students, uniqueIndexes, keyPatternSent, limit, serial, seqLog>>
    /\ UNCHANGED page

\* ---------------------------------------------------------- specification
\* ------------------------------------------------------- the browser page
\* public/script.js.  The page keeps its state in globals and in the class lists of
\* its elements; every user event and every fetch response runs its handler to the
\* next await, which is one step here.  The API is seen through fetch alone: a call
\* in flight is answered, successfully or not, at some later step.
\* no page is open
NoPage == [loaded |-> FALSE]

Null == 0
StudentIds == 1..NumStudents
CourseIds == {1}
Items == {[type |-> "student", id |-> i] : i \in StudentIds}
            \cup {[type |-> "course", id |-> i] : i \in CourseIds}

\* A name as the row template sees it: plain text; text with an apostrophe in it;
\* or text that closes the string literal and the call and goes on with
\* deleteStudent('t for some student t.
PlainName == [apostrophe |-> FALSE, code |-> Null]
Names ==
    {PlainName, [apostrophe |-> TRUE, code |-> Null]}
        \cup {[apostrophe |-> TRUE, code |-> t] : t \in StudentIds}

\* what the onclick attribute of a row's delete button,
\*   showConfirmation('<type>', '<_id>', '<name>')
\* runs when clicked: the text is compiled as a script, name included
RowDeleteHandler(item, name) ==
    IF ~name.apostrophe
    THEN <<[fn |-> "showConfirmation", type |-> item.type, id |-> item.id]>>
    ELSE IF name.code = Null
    THEN <<>>
    ELSE <<[fn |-> "showConfirmation", type |-> item.type, id |-> item.id],
           [fn |-> "deleteStudent", type |-> "student", id |-> name.code]>>

NoHandler == [type |-> "none", id |-> Null]

\* the lists reloaded after a change
Reloads(type) == IF type = "student" THEN <<"students", "stats">> ELSE <<"courses", "stats">>

\* a call of apiRequest, with its caller's continuation, and as history what
\* showConfirmation last showed (for a DELETE) and what the student modal was opened
\* for (for a request of the student form) when the call was made
Call(pg, method, endpoint, id, rest, origin) ==
    [method |-> method, endpoint |-> endpoint, id |-> id, rest |-> rest, origin |-> origin,
     shown |-> IF method = "DELETE" THEN pg.shown ELSE NoHandler,
     opened |-> IF origin = "studentForm" THEN pg.opened ELSE Null]

\* a modal without the class 'active' is not displayed, and its controls and its
\* form receive no user event
Displayed(active) == active

\* apiRequest up to its await: showLoading(), then fetch
apiRequest(pg, call) ==
    [pg EXCEPT !.calls = @ (+) SetToBag({call}), !.loadingSpinner = TRUE]

\* handleStudentSubmit: the request of the form
SubmitAlwaysPost(editing) ==
    [method |-> "POST", id |-> Null]

SubmitRequest(editing) ==
    IF editing # Null THEN [method |-> "PUT", id |-> editing]
    ELSE [method |-> "POST", id |-> Null]

showConfirmation(pg, type, id) ==
    [pg EXCEPT !.confirmBtn = [type |-> type, id |-> id],
               !.confirmationModal = TRUE,
               !.shown = [type |-> type, id |-> id]]

deleteItem(pg, type, id, origin) ==
    apiRequest(pg, Call(pg, "DELETE", IF type = "student" THEN "students" ELSE "courses",
                        id, Reloads(type), origin))

closeStudentModal(pg) ==
    [pg EXCEPT !.studentModal = FALSE, !.currentEditingStudent = Null]

openStudentModal(pg, studentId) ==
    [pg EXCEPT !.currentEditingStudent = studentId, !.studentModal = TRUE]

\* history: the student the modal was last opened for by editStudent, Null when it
\* was opened for a new student or is closed
Opened(pg, studentId) ==
    [pg EXCEPT !.opened = IF pg.studentModal THEN studentId ELSE Null]

\* the page once DOMContentLoaded has run: initializeApp is at its first await, in
\* loadDashboardStats
LoadedPage(names) ==
    [loaded |-> TRUE,
     students |-> {}, courses |-> {},
     currentEditingStudent |-> Null,
     studentModal |-> FALSE, confirmationModal |-> FALSE, loadingSpinner |-> TRUE,
     confirmBtn |-> NoHandler,
     calls |-> SetToBag({[method |-> "GET", endpoint |-> "stats", id |-> Null,
                           rest |-> <<"students", "courses">>, origin |-> "load",
                           shown |-> NoHandler, opened |-> Null]}),
     nops |-> 0,
     served |-> Items, names |-> names,
     shown |-> NoHandler, opened |-> Null]

\* the edit button of a listed student: editStudent(id)
ClickEdit ==
    /\ \E id \in page.students :
        page' = Opened(openStudentModal(page, id), id)
    /\ UNCHANGED server

\* the add-student buttons: openStudentModal()
ClickAddStudent ==
    /\ page' = Opened(openStudentModal(page, Null), Null)
    /\ UNCHANGED server

\* the close and cancel buttons of the student modal, and a click outside it
CloseStudentModal ==
    /\ Displayed(page.studentModal)
    /\ page' = Opened(closeStudentModal(page), Null)
    /\ UNCHANGED server

\* the student form is submitted: handleStudentSubmit up to its await
SubmitStudentForm ==
    /\ Displayed(page.studentModal)
    /\ page.nops < MaxOps
    /\ LET r == SubmitRequest(page.currentEditingStudent)
       IN page' = [apiRequest(page, Call(page, r.method, "students", r.id, Reloads("student"),
                                         "studentForm"))
                    EXCEPT !.nops = @ + 1]
    /\ UNCHANGED server

\* the delete button of a listed student or course: its onclick attribute runs
ClickDelete ==
    /\ \E item \in Items :
        /\ \/ item.type = "student" /\ item.id \in page.students
           \/ item.type = "course" /\ item.id \in page.courses
        /\ LET h == RowDeleteHandler(item, page.names[item])
           IN IF h = <<>> THEN page' = page
              ELSE IF Len(h) = 1 THEN page' = showConfirmation(page, h[1].type, h[1].id)
              ELSE /\ page.nops < MaxOps
                   /\ page' = [deleteItem(showConfirmation(page, h[1].type, h[1].id),
                                          h[2].type, h[2].id, "row")
                                EXCEPT !.nops = @ + 1]
    /\ UNCHANGED server

\* the close and cancel buttons of the confirmation modal, and a click outside it
CancelConfirmation ==
    /\ Displayed(page.confirmationModal)
    /\ page' = [page EXCEPT !.confirmationModal = FALSE]
    /\ UNCHANGED server

\* the confirm button: the onclick showConfirmation gave it, up to the await of
\* deleteStudent or deleteCourse
ClickConfirm ==
    /\ Displayed(page.confirmationModal)
    /\ page.confirmBtn # NoHandler
    /\ page.nops < MaxOps
    /\ page' = [deleteItem([page EXCEPT !.confirmationModal = FALSE],
                           page.confirmBtn.type, page.confirmBtn.id, "confirmActionBtn")
                 EXCEPT !.nops = @ + 1]
    /\ UNCHANGED server

Listed(served, type) == {it.id : it \in {x \in served : x.type = type}}

\* what the API does to its collections when it answers the call c with success
Serve(served, c) ==
    LET type == IF c.endpoint = "students" THEN "student" ELSE "course"
        absent == StudentIds \ Listed(served, "student")
    IN
    IF c.method = "DELETE" THEN served \ {[type |-> type, id |-> c.id]}
    ELSE IF c.method = "POST" /\ absent # {}
    THEN served \cup {[type |-> "student", id |-> CHOOSE i \in absent : \A j \in absent : i <= j]}
    ELSE served

\* whether the API can answer the call with success
Servable(served, c) ==
    c.method \in {"PUT", "DELETE"} =>
        [type |-> IF c.endpoint = "students" THEN "student" ELSE "course", id |-> c.id] \in served

\* fetch of a call in flight settles: the rest of apiRequest (its finally hides
\* the spinner), then its caller up to the next await
Response ==
    /\ \E c \in BagToSet(page.calls) : \E ok \in BOOLEAN :
        LET served == IF ok THEN Serve(page.served, c) ELSE page.served
            settled == [page EXCEPT !.calls = @ (-) SetToBag({c}),
                                    !.loadingSpinner = FALSE,
                                    !.served = served]
            received ==
                IF ~ok \/ c.method # "GET" THEN settled
                ELSE IF c.endpoint = "students"
                THEN [settled EXCEPT !.students = Listed(served, "student")]
                ELSE IF c.endpoint = "courses"
                THEN [settled EXCEPT !.courses = Listed(served, "course")]
                ELSE settled
            saved ==
                IF ok /\ c.origin = "studentForm"
                THEN Opened(closeStudentModal(received), Null)
                ELSE received
            goesOn == (c.method = "GET" \/ ok) /\ c.rest # <<>>
        IN
        /\ ok => Servable(page.served, c)
        /\ page' = IF goesOn
                   THEN apiRequest(saved, Call(saved, "GET", Head(c.rest), Null,
                                               Tail(c.rest), "load"))
                   ELSE saved
    /\ UNCHANGED server

IndexableFields == {"studentId", "email"}

\* a fresh deployment: both collections empty, and the Student collection's indexes
\* as the schema declares them (none unique but _id)
Init ==
    /\ counters = {}
    /\ students = {}
    /\ courses = {}
    /\ uniqueIndexes = {}
    /\ keyPatternSent = TRUE
    /\ frame = [p \in Slots |-> IdleFrame]
    /\ nreq = 0
    /\ limit = MaxRequests
    /\ serial = FALSE
    /\ faults = 0
    /\ seqLog = <<>>
    /\ page = NoPage

\* the fresh deployment under a longer workload: enough requests for a create, a
\* second create, the delete of its student and a third create to overlap
InitRace ==
    /\ counters = {}
    /\ students = {}
    /\ courses = {}
    /\ uniqueIndexes = {}
    /\ keyPatternSent = TRUE
    /\ frame = [p \in Slots |-> IdleFrame]
    /\ nreq = 0
    /\ limit = MaxRaceRequests
    /\ serial = FALSE
    /\ faults = 0
    /\ seqLog = <<>>
    /\ page = NoPage

\* students 1..n as earlier runs left them, the counter reset to 0 since
SeedStudents(n) == {[_id |-> 0 - i, studentId |-> i, email |-> 1] : i \in 1..n}

\* a deployment on a database earlier runs and earlier versions left behind: students
\* are there, the counter was reset, unique indexes of an earlier schema may linger
\* (the source drops email_1 at start-up and only warns when that fails), and the
\* server may be one whose duplicate-key errors carry no keyPattern
InitStale ==
    /\ counters = {[_id |-> SEQ_NAME, sequence_value |-> 0]}
    /\ \E n \in 0..MaxSeed : students = SeedStudents(n)
    /\ courses = {}
    /\ uniqueIndexes \in SUBSET IndexableFields
    /\ keyPatternSent \in BOOLEAN
    /\ frame = [p \in Slots |-> IdleFrame]
    /\ nreq = 0
    /\ limit = MaxStaleRequests
    /\ serial = FALSE
    /\ faults = 0
    /\ seqLog = <<>>
    /\ page = NoPage

\* the databases on which the retry loop runs: a unique studentId index lingers
\* over the students 1..n and every ID up to n collides, for one student (one retry)
\* and for as many as there can be (the loop runs to its end)
InitLive ==
    /\ counters = {[_id |-> SEQ_NAME, sequence_value |-> 0]}
    /\ \E n \in {1, MaxSeed} : students = SeedStudents(n)
    /\ courses = {}
    /\ uniqueIndexes = {"studentId"}
    /\ keyPatternSent \in BOOLEAN
    /\ frame = [p \in Slots |-> IdleFrame]
    /\ nreq = 0
    /\ limit = MaxStaleRequests
    /\ serial = FALSE
    /\ faults = 0
    /\ seqLog = <<>>
    /\ page = NoPage

\* a deployment in use: one student with ID 1, the counter at 1, one course
InitAll ==
    /\ counters = {[_id |-> SEQ_NAME, sequence_value |-> 1]}
    /\ students = SeedStudents(1)
    /\ courses = {[_id |-> 0 - 1, status |-> "Active"]}
    /\ uniqueIndexes = {}
    /\ keyPatternSent = TRUE
    /\ frame = [p \in Slots |-> IdleFrame]
    /\ nreq = 0
    /\ limit = MaxAllRequests
    /\ serial = FALSE
    /\ faults = 0
    /\ seqLog = <<>>
    /\ page = NoPage

\* the same database, served one request at a time
InitSeq ==
    /\ counters = {[_id |-> SEQ_NAME, sequence_value |-> 0]}
    /\ \E n \in 0..MaxSeed : students = SeedStudents(n)
    /\ courses = {}
    /\ uniqueIndexes \in SUBSET IndexableFields
    /\ keyPatternSent \in BOOLEAN
    /\ frame = [p \in Slots |-> IdleFrame]
    /\ nreq = 0
    /\ limit = MaxSeqRequests
    /\ serial = TRUE
    /\ faults = 0
    /\ seqLog = <<>>
    /\ page = NoPage

\* the fresh deployment, served one request at a time
InitSerial ==
    /\ counters = {}
    /\ students = {}
    /\ courses = {}
    /\ uniqueIndexes = {}
    /\ keyPatternSent = TRUE
    /\ frame = [p \in Slots |-> IdleFrame]
    /\ nreq = 0
    /\ limit = MaxSerialRequests
    /\ serial = TRUE
    /\ faults = 0
    /\ seqLog = <<>>
    /\ page = NoPage

Next ==
    \E p \in Slots :
        \/ PostStudent(p)
        \/ CounterUpsert(p)
        \/ CounterInc(p)
        \/ StudentSave(p)
        \/ DeleteStudent(p)
        \/ FindByIdAndDelete(p)
        \/ CountDocuments(p)
        \/ CounterReset(p)

\* the student create and delete routes together with every other route of the API
NextAll ==
    \E p \in Slots :
        \/ PostStudent(p)
        \/ CounterUpsert(p)
        \/ CounterInc(p)
        \/ StudentSave(p)
        \/ DeleteStudent(p)
        \/ FindByIdAndDelete(p)
        \/ CountDocuments(p)
        \/ CounterReset(p)
        \/ GetHealth(p)
        \/ GetStats(p)
        \/ GetStudents(p)
        \/ GetStudentById(p)
        \/ PutStudent(p)
        \/ GetCourses(p)
        \/ GetCourseById(p)
        \/ PostCourse(p)
        \/ PutCourse(p)
        \/ DeleteCourse(p)

\* the page in a browser, the API behind fetch; the student listed first was stored
\* under any name
InitUI ==
    /\ counters = {}
    /\ students = {}
    /\ courses = {}
    /\ uniqueIndexes = {}
    /\ keyPatternSent = TRUE
    /\ frame = [p \in Slots |-> IdleFrame]
    /\ nreq = 0
    /\ limit = 0
    /\ serial = FALSE
    /\ faults = 0
    /\ seqLog = <<>>
    /\ \E names \in [Items -> Names] :
        /\ \A it \in Items : it.type = "course" \/ it.id > 1 => names[it] = PlainName
        /\ page = LoadedPage(names)

NextUI ==
    \/ ClickEdit
    \/ ClickAddStudent
    \/ CloseStudentModal
    \/ SubmitStudentForm
    \/ ClickDelete
    \/ CancelConfirmation
    \/ ClickConfirm
    \/ Response

Spec == Init /\ [][Next]_vars

SpecUI == InitUI /\ [][NextUI]_vars

SpecAll == InitAll /\ [][NextAll]_vars

SpecRace == InitRace /\ [][Next]_vars

SpecStale == InitStale /\ [][Next]_vars

SpecSerial == InitSerial /\ [][Next]_vars

SpecSeq == InitSeq /\ [][Next]_vars

\* the store call the handler in slot p is waiting for returns (the handler's
\* position enables one of these at most)
StoreCall(p) ==
    \/ CounterUpsert(p)
    \/ CounterInc(p)
    \/ StudentSave(p)
    \/ FindByIdAndDelete(p)
    \/ CountDocuments(p)
    \/ CounterReset(p)

\* every store call a handler awaits eventually returns, with a result or a failure
StoreCallsReturn == \A p \in Slots : WF_vars(StoreCall(p))

SpecLive == InitLive /\ [][Next]_vars /\ StoreCallsReturn

\* ------------------------------------------------- the allocator's claims
Returned == 1..Len(seqLog)

\* C1: getNextSequenceValue never returns a value it has already returned unless the
\* counter was reset in between: the values returned since the last reset are
\* pairwise distinct, however the calls' store operations interleave.
C1_NoRepeatedValue ==
    \A i, j \in Returned : i < j => seqLog[i] # seqLog[j]

\* two calls that overlapped have both returned: the second started before any
\* value of this epoch was returned and got the second value
C1_Witness ==
    /\ Len(seqLog) >= 2
    /\ \E p, q \in Slots :
        /\ p # q
        /\ frame[p].pc = "save" /\ frame[q].pc = "save"
        /\ frame[p].seen = 0 /\ frame[q].seen = 0

\* C2: no two students persisted in the collection carry the same studentId, in
\* every reachable state, under any interleaving of create and delete requests.
C2_UniqueStudentIds ==
    \A s, t \in students : s.studentId = t.studentId => s = t

\* C3: with the counter at v and N calls with no reset, the values returned are
\* exactly v+1 .. v+N and the counter ends at v+N: after i calls of an epoch the
\* counter is at i, and the calls i+1 .. j return exactly the values i+1 .. j.
C3_ExactRange ==
    /\ CounterValue(counters, SEQ_NAME) = Len(seqLog)
    /\ \A i \in 0..Len(seqLog) : \A j \in i..Len(seqLog) :
        {seqLog[k] : k \in (i + 1)..j} = (i + 1)..j

\* three calls have returned, the last two overlapping
C3_Witness ==
    /\ Len(seqLog) >= 3
    /\ \E p, q \in Slots :
        /\ p # q
        /\ frame[p].pc = "save" /\ frame[q].pc = "save"
        /\ frame[p].seen = 1 /\ frame[q].seen = 1

\* C4: a call that starts after another call has completed, with no reset between
\* them, returns a strictly greater value: the value a call returned exceeds every
\* value of the epoch that had been returned when the call started.
C4_StrictlyIncreasing ==
    \A p \in Slots :
        frame[p].pc = "save" =>
            \A i \in Returned : i <= frame[p].seen => seqLog[i] < frame[p].generatedStudentId

\* a call that started after two calls had completed has returned
C4_Witness ==
    \E p \in Slots :
        /\ frame[p].pc = "save"
        /\ frame[p].seen >= 2
        /\ frame[p].generatedStudentId > 0

\* C5: the first call on a name without a counter record succeeds and returns 1,
\* and so does the next call after a reset to 0: the increment always finds the
\* record the upsert created, and a call that started with the counter absent or at
\* 0, no other call returning meanwhile, returns 1.
C5_FirstValueIsOne ==
    /\ [](\A p \in Slots : frame[p].pc = "inc" => CounterDocs(counters, SEQ_NAME) # {})
    /\ [][\A p \in Slots :
            (/\ frame[p].pc = "inc"
             /\ frame'[p].pc = "save"
             /\ frame[p].base = 0
             /\ frame[p].seen = Len(seqLog))
            => frame'[p].generatedStudentId = 1]_vars

\* a call made after a delete request reset the counter has returned 1
C5_Witness ==
    \E p, q \in Slots :
        /\ frame[q].kind = "delete" /\ frame[q].pc = "done"
        /\ frame[q].status = 200 /\ frame[q].remainingStudents = 0
        /\ frame[p].rid > frame[q].rid
        /\ frame[p].pc = "save" /\ frame[p].base = 0
        /\ frame[p].generatedStudentId = 1

\* ------------------------------------------------ the retry loop's claims
DupId == <<"dup", "studentId">>
Saved == <<"saved", "">>

\* the attempts 1 .. n of f's request all ended in a studentId collision
AllCollided(f, n) == \A i \in 1..n : f.trail[i] = DupId

\* the request of frame f has a student in the collection
Persisted(f) == \E s \in students : s._id = f.rid

\* C6: for every k < 5, when the first k save attempts of a create request collide
\* on studentId and attempt k+1 succeeds, the request responds 201 with the student
\* attempt k+1 saved and the caller sees no error: a collision before the last
\* attempt never ends the request, the loop goes on to attempt k+1, and a save that
\* succeeds is answered 201 with the document just saved.
C6_RetryTransparent ==
    \A p \in Slots :
        LET f == frame[p]
            n == Len(f.trail)
        IN f.kind = "create" =>
            /\ (n >= 1 /\ n < MAX_RETRIES /\ AllCollided(f, n))
                    => (f.pc # "done" /\ f.attempt = n)
            /\ (n >= 1 /\ f.trail[n] = Saved /\ AllCollided(f, n - 1))
                    => /\ f.pc = "done" /\ f.status = 201 /\ f.error = ""
                       /\ f.attempt = n - 1
                       /\ f.student = Built(f)

\* a request answered 201 after four collisions
C6_Witness ==
    \E p \in Slots :
        /\ frame[p].pc = "done" /\ frame[p].status = 201
        /\ Len(frame[p].trail) = MAX_RETRIES
        /\ AllCollided(frame[p], MAX_RETRIES - 1)
        /\ frame[p].trail[MAX_RETRIES] = Saved

\* C7: when all 5 save attempts of a create request collide on studentId, the
\* request fails with 'Failed to generate a unique Student ID after multiple
\* retries.', responds 500, and has persisted no student.
C7_Exhaustion ==
    \A p \in Slots :
        LET f == frame[p]
        IN (f.kind = "create" /\ Len(f.trail) = MAX_RETRIES /\ AllCollided(f, MAX_RETRIES))
            => /\ f.pc = "done"
               /\ f.status = 500
               /\ f.error = MsgExhausted
               /\ f.student = NoDoc
               /\ ~Persisted(f)

\* a request whose five attempts all collided
C7_Witness ==
    \E p \in Slots :
        /\ frame[p].kind = "create" /\ frame[p].pc = "done"
        /\ Len(frame[p].trail) = MAX_RETRIES
        /\ AllCollided(frame[p], MAX_RETRIES)

\* C8: a uniqueness conflict on anything but studentId (email, another field, no
\* field named) ends the create request at once with a distinguishable error: the
\* conflict is the request's last attempt, and the request is answered with an
\* error that is neither a success nor the loop's generic failure.
C8_OtherConflictAborts ==
    \A p \in Slots :
        LET f == frame[p]
        IN \A i \in 1..Len(f.trail) :
            (f.trail[i][1] = "dup" /\ f.trail[i] # DupId)
                => /\ i = Len(f.trail)
                   /\ f.pc = "done"
                   /\ f.status >= 400
                   /\ f.error \notin {"", MsgLoopEnd, MsgExhausted}

\* C9: a failure that is no uniqueness conflict (the allocation fails, the save
\* fails on validation or transport) ends the create request at once: it is the
\* request's last attempt, the request has persisted no student, and the error
\* reported is that failure's message.
C9_FailurePropagates ==
    \A p \in Slots :
        LET f == frame[p]
        IN \A i \in 1..Len(f.trail) :
            f.trail[i][1] = "fail"
                => /\ i = Len(f.trail)
                   /\ f.pc = "done"
                   /\ f.error = f.trail[i][2]
                   /\ f.student = NoDoc
                   /\ ~Persisted(f)

\* a request whose second attempt failed in the allocation, after a collision
C9_Witness ==
    \E p \in Slots :
        /\ frame[p].pc = "done"
        /\ Len(frame[p].trail) = 2
        /\ frame[p].trail[1] = DupId
        /\ frame[p].trail[2] = <<"fail", MsgNetwork>>
        /\ frame[p].generatedStudentId = 0

\* C10: when the store is unavailable during a student create or delete, the
\* operation is not retried and the request is answered with a 5xx status.
C10_UnavailableIsServerError ==
    \A p \in Slots :
        LET f == frame[p]
        IN /\ \A i \in 1..Len(f.trail) :
                f.trail[i] = <<"fail", MsgNetwork>> => (i = Len(f.trail) /\ f.pc = "done")
           /\ (f.pc = "done" /\ f.error = MsgNetwork) => f.status >= 500

\* ------------------------------------------------ the delete handler's claims
\* the handler in slot p is serving a request
InFlight(p) == ~Free(p)

\* the step is the one on which the request served in slot p is answered
Answers(p) == InFlight(p) /\ frame'[p].pc = "done"

\* C11: a delete request that no other request overlaps and that is answered 200:
\* if it deleted the last student, the counter is 0 when it completes; if students
\* remain, the counter is what it was when the request arrived.
C11_Reclamation ==
    [][\A p \in Slots :
        (/\ frame[p].kind = "delete"
         /\ Answers(p)
         /\ frame'[p].status = 200)
        => IF students' = {}
           THEN CounterValue(counters', SEQ_NAME) = 0
           ELSE CounterValue(counters', SEQ_NAME) = frame[p].first]_vars

\* C11 as stated, for every delete request that deleted a student, whatever its
\* answer: the counter is 0 at completion if no student remains, unchanged otherwise.
C11_AsStated ==
    [][\A p \in Slots :
        (/\ frame[p].kind = "delete"
         /\ Answers(p)
         /\ frame[p].pc \in {"count", "reset"})
        => IF students' = {}
           THEN CounterValue(counters', SEQ_NAME) = 0
           ELSE CounterValue(counters', SEQ_NAME) = frame[p].first]_vars

\* a student was created with ID 1 and then deleted, the collection is empty again
\* and the counter is back at 0
C11_Witness ==
    \E p, q \in Slots :
        /\ serial
        /\ frame[q].kind = "create" /\ frame[q].pc = "done" /\ frame[q].status = 201
        /\ frame[q].student.studentId >= 1
        /\ frame[p].kind = "delete" /\ frame[p].pc = "done" /\ frame[p].status = 200
        /\ frame[p].id = frame[q].rid
        /\ frame[p].remainingStudents = 0
        /\ students = {}
        /\ CounterValue(counters, SEQ_NAME) = 0

\* C12: a delete request whose lookup finds no student under the key is answered
\* 404 'Student not found' on that step and has no other effect: the student
\* collection and the counter are unchanged, nothing is counted and nothing is reset,
\* also when the collection is empty.
C12_NotFound ==
    [][\A p \in Slots :
        (/\ frame[p].pc = "delete"
         /\ frame'[p] # frame[p]
         /\ faults' = faults
         /\ \A s \in students : s._id # frame[p].id)
        => /\ frame'[p].pc = "done"
           /\ frame'[p].status = 404
           /\ frame'[p].error = MsgNotFound
           /\ frame'[p].remainingStudents = 0
           /\ students' = students
           /\ counters' = counters]_vars

\* a delete was answered 404 while the collection was empty and the counter above 0
C12_Witness ==
    \E p \in Slots :
        /\ frame[p].kind = "delete" /\ frame[p].pc = "done"
        /\ frame[p].status = 404
        /\ students = {}
        /\ CounterValue(counters, SEQ_NAME) >= 1

\* ------------------------------------------------- the counter record's claims
\* C13: there is at most one counter record per sequence name in every reachable
\* state, also when two initializations race; the initialization step creates the
\* record with value 0 only when it is absent and leaves an existing record as it
\* is; and a record, once there, is never removed.
C13_SingleCounterRecord ==
    /\ [](Cardinality(CounterDocs(counters, SEQ_NAME)) <= 1)
    /\ [][/\ CounterDocs(counters, SEQ_NAME) # {} => CounterDocs(counters', SEQ_NAME) # {}
          /\ \A p \in Slots :
                (frame[p].pc = "upsert" /\ frame'[p].pc = "inc")
                => IF CounterDocs(counters, SEQ_NAME) = {}
                   THEN counters' = counters \cup
                            {[_id |-> SEQ_NAME, sequence_value |-> INITIAL_ID_VALUE]}
                   ELSE counters' = counters]_vars

\* the first two requests are creates whose initializations have both been made
\* before either increment, and there is one record
C13_Witness ==
    /\ nreq = 2
    /\ seqLog = <<>>
    /\ \A p \in Slots : frame[p].pc = "inc" /\ frame[p].rid \in {1, 2}
    /\ counters = {[_id |-> SEQ_NAME, sequence_value |-> 0]}

\* C14: the counter value is a non-negative integer in every reachable state, and
\* every step leaves it unchanged, increases it by exactly 1 (the increment of an
\* allocation) or sets it to 0 (the reset of a delete): it never decreases
\* otherwise.
C14_CounterSteps ==
    /\ [](CounterValue(counters, SEQ_NAME) \in Nat)
    /\ [][LET v == CounterValue(counters, SEQ_NAME)
              w == CounterValue(counters', SEQ_NAME)
          IN \/ w = v
             \/ /\ w = v + 1
                /\ \E p \in Slots : frame[p].pc = "inc" /\ frame'[p].pc = "save"
             \/ /\ w = 0
                /\ \E p \in Slots : frame[p].pc = "reset" /\ frame'[p].pc = "done"]_vars

\* the counter went up to 2 and a delete has since set it to 0
C14_Witness ==
    \E p, q \in Slots :
        /\ frame[q].kind = "create" /\ frame[q].generatedStudentId = 2
        /\ frame[p].kind = "delete" /\ frame[p].pc = "done" /\ frame[p].status = 200
        /\ frame[p].remainingStudents = 0
        /\ frame[p].rid > frame[q].rid
        /\ counters = {[_id |-> SEQ_NAME, sequence_value |-> 0]}
        /\ seqLog = <<>>

\* C15: the count and the reset of a delete are not atomic with concurrent creates.
\* A delete that counted 0 applies its reset whatever the collection holds by then:
\* the reset step sets the counter to 0 and leaves the students as they are.  With
\* the state C15_Witness reached, the step ends with the counter at 0 and a student
\* whose studentId is above 0 in the collection.
C15_ResetNotAtomic ==
    /\ [](\A p \in Slots : frame[p].pc = "reset" => frame[p].remainingStudents = 0)
    /\ [][\A p \in Slots :
            (frame[p].pc = "reset" /\ frame'[p].pc = "done" /\ frame'[p].status = 200)
            => /\ CounterValue(counters', SEQ_NAME) = 0
               /\ students' = students]_vars

\* a delete has counted 0 and not yet reset; since it counted, a create request
\* was allocated an ID and persisted its student
C15_Witness ==
    \E p \in Slots :
        /\ frame[p].pc = "reset"
        /\ \E i \in Returned : \E s \in students :
            /\ i > frame[p].seen
            /\ s.studentId = seqLog[i]
            /\ s.studentId > 0

\* --------------------------------------------------- the create handler's claims
\* C16: every create request terminates.  It never goes beyond its fifth attempt
\* (each attempt is one allocation and at most one save, and a failed attempt
\* advances the loop); once answered it is not answered again; and, store calls
\* returning, a request being served is eventually answered, whatever failures the
\* store reports.
C16_Terminates ==
    /\ [](\A p \in Slots :
            frame[p].kind = "create" =>
                /\ frame[p].attempt \in 0..(MAX_RETRIES - 1)
                /\ Len(frame[p].trail) <= MAX_RETRIES
                /\ InFlight(p) => Len(frame[p].trail) = frame[p].attempt)
    /\ [][\A p \in Slots :
            frame[p].pc = "done" =>
                (frame'[p] = frame[p] \/ frame'[p].rid > frame[p].rid)]_vars
    /\ \A p \in Slots :
            (frame[p].kind = "create" /\ InFlight(p)) ~> (frame[p].pc = "done")

\* a request has been answered after five attempts that the loop swallowed
C16_Witness ==
    \E p \in Slots :
        /\ frame[p].kind = "create" /\ frame[p].pc = "done"
        /\ frame[p].attempt = MAX_RETRIES - 1
        /\ Len(frame[p].trail) = MAX_RETRIES
        /\ frame[p].error = MsgLoopEnd

\* the attempts of f's request whose allocation returned a value: all of them, but
\* for a last attempt that failed before getNextSequenceValue returned
Allocations(f) == Len(f.trail) - (IF f.generatedStudentId = 0 THEN 1 ELSE 0)

\* C17: each retry-loop iteration whose allocation returns consumes one counter
\* value for good.  For a create request that no other request overlaps, the
\* counter at the answer is its value at the arrival plus the number of attempts
\* whose allocation returned (k+1 after k collisions and a success, 5 after
\* exhaustion); and the value an allocation returns is above every value handed out
\* since the last reset, those of collided attempts included.
C17_AttemptsConsumeValues ==
    [][\A p \in Slots :
        /\ (frame[p].kind = "create" /\ Answers(p))
            => CounterValue(counters', SEQ_NAME)
                    = frame[p].first + Allocations(frame'[p])
        /\ (frame[p].pc = "inc" /\ frame'[p].pc = "save")
            => \A i \in Returned : seqLog[i] < frame'[p].generatedStudentId]_vars

\* C17 as stated: the counter at the answer is its value at the arrival plus the
\* number of attempts made.
C17_AsStated ==
    [][\A p \in Slots :
        (frame[p].kind = "create" /\ Answers(p))
            => CounterValue(counters', SEQ_NAME)
                    = frame[p].first + Len(frame'[p].trail)]_vars

\* a request no other overlapped was answered 201 after two collisions, with ID 3
C17_Witness ==
    \E p \in Slots :
        /\ serial
        /\ frame[p].pc = "done" /\ frame[p].status = 201
        /\ frame[p].trail = <<DupId, DupId, Saved>>
        /\ frame[p].student.studentId = 3
        /\ CounterValue(counters, SEQ_NAME) = 3

\* C18: a create request adds at most one student, and adds one exactly when it
\* answers 201.  Of the steps of a request being served, only the one that answers
\* 201 changes the collection: it is a save step, it adds the one document the
\* response returns, and that document's studentId is the value the allocation of
\* the same loop iteration returned.  The collection never holds two students of
\* one request, and holds one only of a request answered 201.
C18_OneStudentPerCreate ==
    /\ [](\A p \in Slots :
            frame[p].kind = "create" =>
                \A s \in students :
                    s._id = frame[p].rid =>
                        /\ frame[p].pc = "done" /\ frame[p].status = 201
                        /\ s = frame[p].student)
    /\ [][\A p \in Slots :
            (frame[p].kind = "create" /\ InFlight(p) /\ frame'[p] # frame[p])
            => IF frame'[p].pc = "done" /\ frame'[p].status = 201
               THEN LET doc == frame'[p].student
                    IN /\ frame[p].pc = "save"
                       /\ doc \notin students
                       /\ students' = students \cup {doc}
                       /\ doc._id = frame[p].rid
                       /\ frame[p].generatedStudentId >= 1
                       /\ doc.studentId = frame[p].generatedStudentId
               ELSE students' = students]_vars

\* a request answered 201 on its second attempt: its student carries ID 2
C18_Witness ==
    \E p \in Slots :
        /\ frame[p].pc = "done" /\ frame[p].status = 201
        /\ frame[p].trail = <<DupId, Saved>>
        /\ frame[p].student.studentId = 2
        /\ frame[p].student \in students

\* C19: a create request whose payload lacks name, email, course or enrollmentDate
\* is answered 400 with the message of the required fields on arrival, before any
\* ID is allocated: the step leaves the counter and the student collection as they
\* are, and the request makes no attempt.
C19_MissingFieldsRefused ==
    /\ [](\A p \in Slots :
            (frame[p].kind = "create" /\ frame[p].body.fields = "missing")
            => /\ frame[p].pc = "done"
               /\ frame[p].status = 400
               /\ frame[p].error = MsgRequired
               /\ frame[p].trail = <<>>
               /\ frame[p].generatedStudentId = 0)
    /\ [][\A p \in Slots :
            (/\ nreq' = nreq + 1
             /\ frame'[p].rid = nreq'
             /\ frame'[p].kind = "create"
             /\ frame'[p].body.fields = "missing")
            => /\ counters' = counters
               /\ students' = students
               /\ seqLog' = seqLog]_vars

\* a payload was refused while the counter stood above 0 and a student was stored
C19_Witness ==
    \E p \in Slots :
        /\ frame[p].kind = "create" /\ frame[p].pc = "done"
        /\ frame[p].status = 400 /\ frame[p].error = MsgRequired
        /\ CounterValue(counters, SEQ_NAME) >= 1
        /\ students # {}

\* ------------------------------------------------------ the API as a whole
\* C20: the 'studentId' counter record is changed only by student creation and by
\* student deletion.  A step that changes the Counter collection is a step of a
\* create request (the initialization that inserts the record at 0, or the one
\* increment of an attempt, by exactly 1) or the reset step of a delete request
\* (to 0); the steps of every other route (health, stats, student GET and PUT, the
\* course routes, deleting the last course included) leave it unchanged.
C20_OnlyCreateAndDelete ==
    [][counters' # counters =>
        \E p \in Slots :
            LET f == frame[p]
                v == CounterValue(counters, SEQ_NAME)
                w == CounterValue(counters', SEQ_NAME)
            IN IF f.kind = "create" /\ f.pc = "upsert"
               THEN /\ frame'[p].pc = "inc"
                    /\ CounterDocs(counters, SEQ_NAME) = {}
                    /\ counters' = counters \cup {[_id |-> SEQ_NAME, sequence_value |-> 0]}
               ELSE IF f.kind = "create" /\ f.pc = "inc"
               THEN /\ frame'[p].pc = "save"
                    /\ frame'[p].attempt = f.attempt
                    /\ w = v + 1
                    /\ frame'[p].generatedStudentId = w
               ELSE /\ f.kind = "delete" /\ f.pc = "reset"
                    /\ frame'[p].pc = "done"
                    /\ w = 0]_vars

\* the last course was deleted while a student was stored and the counter stood
\* above 0: the counter still matches the student's ID
C20_Witness ==
    \E p \in Slots :
        /\ frame[p].kind = "deleteCourse" /\ frame[p].pc = "done"
        /\ frame[p].status = 200
        /\ courses = {}
        /\ \E s \in students : s.studentId = CounterValue(counters, SEQ_NAME)
        /\ CounterValue(counters, SEQ_NAME) >= 1

\* ------------------------------------------------- the counter and the collection
\* no request is being served
Quiet == \A p \in Slots : Free(p)

\* C21: the reset rule.  A delete request that counted no remaining student and is
\* answered 200 leaves the counter at 0 at its answer; and when the collection
\* is empty, no request is in flight and the counter is above 0, an ID has been
\* allocated since the last reset (or since the deployment, if there was none).
C21_EmptyMeansReset ==
    /\ [](students = {} /\ Quiet /\ CounterValue(counters, SEQ_NAME) # 0
            => seqLog # <<>>)
    /\ [][\A p \in Slots :
            (/\ frame[p].kind = "delete"
             /\ Answers(p)
             /\ frame'[p].status = 200
             /\ frame'[p].remainingStudents = 0)
            => CounterValue(counters', SEQ_NAME) = 0]_vars

\* C21 as stated: whenever the collection is empty and no request is in flight, the
\* counter is absent or 0.
C21_AsStated ==
    (students = {} /\ Quiet) => CounterValue(counters, SEQ_NAME) = 0

\* a student was created and deleted; the collection is empty, nothing is in
\* flight and the counter is back at 0
C21_Witness ==
    /\ Quiet
    /\ students = {}
    /\ counters = {[_id |-> SEQ_NAME, sequence_value |-> 0]}
    /\ \E p, q \in Slots :
        /\ frame[q].kind = "create" /\ frame[q].status = 201
        /\ frame[p].kind = "delete" /\ frame[p].status = 200
        /\ frame[p].id = frame[q].rid
        /\ frame[p].remainingStudents = 0

\* C22: when requests are served one at a time from the first deployment on, in
\* every state between two requests the counter is at least the studentId of every
\* stored student, and no two stored students have the same studentId.
C22_CounterBoundsIds ==
    Quiet =>
        /\ \A s \in students : s.studentId <= CounterValue(counters, SEQ_NAME)
        /\ \A s, t \in students : s.studentId = t.studentId => s = t

\* between two requests, after a delete: two students are stored and the counter
\* is past their number
C22_Witness ==
    /\ serial
    /\ Quiet
    /\ Cardinality(students) >= 2
    /\ CounterValue(counters, SEQ_NAME) > Cardinality(students)
    /\ \E p \in Slots : frame[p].kind = "delete" /\ frame[p].status = 200

\* ------------------------------------------------------------ the browser page
\* C23 as stated: every DELETE request was sent by a click on the confirm button of
\* the confirmation modal, for the type and id of the most recent showConfirmation.
C23_AsStated ==
    \A c \in BagToSet(page.calls) :
        c.method = "DELETE" =>
            /\ c.origin = "confirmActionBtn"
            /\ c.shown = [type |-> IF c.endpoint = "students" THEN "student" ELSE "course",
                          id |-> c.id]

\* C24: a request of the student form is PUT /students/X exactly when the student
\* modal was last opened by editStudent(X) and not closed since, and POST /students
\* otherwise; and while the modal is closed currentEditingStudent is null.
C24_SubmitTargets ==
    /\ \A c \in BagToSet(page.calls) :
        c.origin = "studentForm" =>
            IF c.opened # Null
            THEN c.method = "PUT" /\ c.endpoint = "students" /\ c.id = c.opened
            ELSE c.method = "POST" /\ c.endpoint = "students" /\ c.id = Null
    /\ ~page.studentModal => page.currentEditingStudent = Null

\* the form was submitted for an edited student, the modal was closed and opened for
\* a new student, and the form was submitted again: a PUT and a POST are in flight
C24_Witness ==
    /\ page.studentModal
    /\ page.currentEditingStudent = Null
    /\ \E c, d \in BagToSet(page.calls) :
        /\ c.origin = "studentForm" /\ c.method = "PUT" /\ c.id \in StudentIds
        /\ d.origin = "studentForm" /\ d.method = "POST"

\* C25 as stated: the spinner is active exactly when a call of apiRequest is in
\* flight.
C25_AsStated ==
    page.loadingSpinner <=> page.calls # EmptyBag

====
